---- MODULE Spec2Model ----
(***************************************************************************)
(* Model of import-project.py: the launcher that locates the Godot editor  *)
(* binary, validates the project directory and runs the editor's import    *)
(* pipeline as a child process, forwarding its return code.                *)
(*                                                                         *)
(* A Python str that holds a path is a record [abs, parts]: whether it is  *)
(* rooted, and its components in order.  The empty str is the relative     *)
(* path with no components.  Python's None is the record None.             *)
(***************************************************************************)
EXTENDS Integers, Sequences, FiniteSets, TLC

VARIABLES
    argv,       \* sys.argv
    environ,    \* os.environ
    system,     \* platform.system()
    machine,    \* platform.machine(), a sequence of characters
    cwd,        \* the working directory, absolute components
    files,      \* the regular files on disk, absolute components each
    dirs,       \* the directories on disk that matter, absolute components
    pc,         \* the line main() is at
    project,    \* main's local `project`
    editor,     \* main's local `editor`
    path,       \* detect_editor_binary's local `path`
    result,     \* result.returncode of subprocess.run
    child,      \* the child process: "none", "running", "exited"
    cmd,        \* the argument list handed to subprocess.run
    exitcode,   \* the exit status of the launcher process
    stderr,     \* the lines the launcher wrote to sys.stderr
    calls,      \* the environment, filesystem and process calls made, in order
    runs,       \* the number of the current invocation
    prev        \* what the previous invocation resolved

inputs == <<argv, environ, system, machine, cwd, files, dirs>>
vars == <<argv, environ, system, machine, cwd, files, dirs, pc, project, editor,
          path, result, child, cmd, exitcode, stderr, calls, runs, prev>>

\* The number of invocations of the launcher a behaviour holds.
MaxRuns == 2

None == [t |-> "None"]

Str(s) == [abs |-> FALSE, parts |-> s]
AbsStr(s) == [abs |-> TRUE, parts |-> s]
EmptyStr == Str(<< >>)

\* bool(x) of a Python value that is None or a str
Truthy(x) == x # None /\ x # EmptyStr

\* os.environ.get(key)
EnvironGet(key) == IF key \in DOMAIN environ THEN environ[key] ELSE None

-----------------------------------------------------------------------------
(* str.lower() on the characters machine names are made of *)

UpperChars == <<"A", "B", "C", "D", "E", "F", "G", "H", "I", "J", "K", "L", "M",
                "N", "O", "P", "Q", "R", "S", "T", "U", "V", "W", "X", "Y", "Z">>
LowerChars == <<"a", "b", "c", "d", "e", "f", "g", "h", "i", "j", "k", "l", "m",
                "n", "o", "p", "q", "r", "s", "t", "u", "v", "w", "x", "y", "z">>

LowerChar(c) ==
    IF \E i \in DOMAIN UpperChars : UpperChars[i] = c
    THEN LowerChars[CHOOSE i \in DOMAIN UpperChars : UpperChars[i] = c]
    ELSE c

Lower(s) == [i \in DOMAIN s |-> LowerChar(s[i])]

ARM64 == <<"a", "r", "m", "6", "4">>
AARCH64 == <<"a", "a", "r", "c", "h", "6", "4">>

\* lines 15-17: the architecture token
ArchNoLower(m) == IF m \in {ARM64, AARCH64} THEN "arm64" ELSE "x86_64"
Arch(m) == IF Lower(m) \in {ARM64, AARCH64} THEN "arm64" ELSE "x86_64"

SupportedAlsoOther(sys) == TRUE
Supported(sys) == sys \in {"Windows", "Linux", "Darwin"}

\* lines 19-24: the file name of the editor binary
BinaryName(sys, m) ==
    CASE sys = "Windows" -> "godot.windows.editor." \o Arch(m) \o ".executable.mono.exe"
      [] sys = "Linux" -> "godot.linuxbsd.editor." \o Arch(m) \o ".executable.mono"
      [] OTHER -> "godot.macos.editor." \o Arch(m) \o ".executable.mono"

-----------------------------------------------------------------------------
(* os.path *)

\* os.path.join(a, b) with b a single relative component
Join(a, b) == [abs |-> a.abs, parts |-> Append(a.parts, b)]

\* os.path.normpath on the components of a rooted path
RECURSIVE NormFrom(_, _)
NormFrom(done, rest) ==
    IF rest = << >> THEN done
    ELSE LET h == Head(rest)
             t == Tail(rest)
         IN  CASE h = "." -> NormFrom(done, t)
               [] h = ".." -> NormFrom(IF done = << >> THEN << >>
                                       ELSE SubSeq(done, 1, Len(done) - 1), t)
               [] OTHER -> NormFrom(Append(done, h), t)

Norm(parts) == NormFrom(<< >>, parts)

\* os.path.abspath(p): normpath(join(os.getcwd(), p))
AbsPath(p) == IF p.abs THEN AbsStr(Norm(p.parts)) ELSE AbsStr(Norm(cwd \o p.parts))

\* os.path.exists(p): the kernel resolves p against the working directory
Exists(p) == p # EmptyStr /\ AbsPath(p).parts \in files \cup dirs

\* os.path.isfile(p)
IsFileAnyKind(p) == p # EmptyStr /\ AbsPath(p).parts \in files \cup dirs
IsFile(p) == p # EmptyStr /\ AbsPath(p).parts \in files

\* line 48 (and 27, 33, 45): sys.exit(n); the process status keeps the low 8 bits
ExitStatus(n) == n % 256

\* sys.exit(code)
Exit(code) == exitcode' = ExitStatus(code) /\ pc' = "done"

\* print(msg + arg, file=sys.stderr)
PrintErr(msg, arg) == Append(stderr, <<msg, arg>>)

-----------------------------------------------------------------------------
(* The inputs a behaviour draws *)

Cwd == <<"w">>
DefaultProject == Str(<<".", "game">>)
Marker == "project.godot"

Systems == {"Windows", "Linux", "Darwin", "Plan9"}
Machines == {<<"x", "8", "6", "_", "6", "4">>, <<"A", "M", "D", "6", "4">>,
             ARM64, <<"A", "R", "M", "6", "4">>, <<"A", "a", "r", "c", "h", "6", "4">>}
OverridePath == AbsStr(<<"opt", "godot", "editor">>)
Environs == {<< >>, [GODOT_EDITOR |-> EmptyStr], [GODOT_EDITOR |-> OverridePath]}
Prog == Str(<<"import-project.py">>)
Argvs == {<<Prog>>, <<Prog, Str(<<"..", "srv", "proj">>)>>, <<Prog, AbsStr(<<"w", "game">>)>>}

BinDir == Cwd \o <<"godot", "bin">>
FileUniverse ==
    { Append(BinDir, "godot.linuxbsd.editor.x86_64.executable.mono"),
      Append(BinDir, "godot.linuxbsd.editor.arm64.executable.mono"),
      Append(BinDir, "godot.windows.editor.x86_64.executable.mono.exe"),
      Append(BinDir, "godot.macos.editor.arm64.executable.mono"),
      OverridePath.parts,
      <<"w", "game", Marker>>,
      <<"srv", "proj", Marker>> }
DirUniverse == { <<"w", "game", Marker>> }

\* what a child reports: its exit code, or minus the signal that ended it
ReturnCodes == {0, 1, 7, 255, -9, -15}

NoPrev == [run |-> 0]

Fresh ==
    /\ pc = "L39"
    /\ project = None
    /\ editor = None
    /\ path = None
    /\ result = None
    /\ child = "none"
    /\ cmd = << >>
    /\ exitcode = None
    /\ stderr = << >>
    /\ calls = << >>

Init ==
    /\ argv \in Argvs
    /\ environ \in Environs
    /\ system \in Systems
    /\ machine \in Machines
    /\ cwd = Cwd
    /\ files \in SUBSET FileUniverse
    /\ dirs \in SUBSET (DirUniverse \ files)
    /\ Fresh
    /\ runs = 1
    /\ prev = NoPrev

-----------------------------------------------------------------------------
(* main() and detect_editor_binary(), one action per statement group *)

\* line 39
ReadArgs ==
    /\ pc = "L39"
    /\ project' = IF Len(argv) > 1 THEN argv[2] ELSE DefaultProject
    /\ pc' = "L40"
    /\ UNCHANGED <<inputs, editor, path, result, child, cmd, exitcode, stderr, calls,
                   runs, prev>>

\* line 40: os.environ.get("GODOT_EDITOR") or detect_editor_binary()
ReadOverrideAlwaysDetect ==
    /\ pc = "L40"
    /\ calls' = Append(calls, "environ.get")
    /\ editor' = EnvironGet("GODOT_EDITOR")
    /\ pc' = "L12"
    /\ UNCHANGED <<inputs, project, path, result, child, cmd, exitcode, stderr, runs, prev>>
ReadOverrideAnySet ==
    /\ pc = "L40"
    /\ calls' = Append(calls, "environ.get")
    /\ IF EnvironGet("GODOT_EDITOR") # None
       THEN editor' = EnvironGet("GODOT_EDITOR") /\ pc' = "L42"
       ELSE editor' = editor /\ pc' = "L12"
    /\ UNCHANGED <<inputs, project, path, result, child, cmd, exitcode, stderr, runs, prev>>
ReadOverride ==
    /\ pc = "L40"
    /\ calls' = Append(calls, "environ.get")
    /\ IF Truthy(EnvironGet("GODOT_EDITOR"))
       THEN editor' = EnvironGet("GODOT_EDITOR") /\ pc' = "L42"
       ELSE editor' = editor /\ pc' = "L12"
    /\ UNCHANGED <<inputs, project, path, result, child, cmd, exitcode, stderr, runs, prev>>

\* lines 12-29
DetectName ==
    /\ pc = "L12"
    /\ calls' = calls \o <<"platform.system", "platform.machine">>
    /\ IF Supported(system)
       THEN /\ path' = Join(Join(Str(<<"godot">>), "bin"), BinaryName(system, machine))
            /\ pc' = "L30"
            /\ UNCHANGED <<exitcode, stderr>>
       ELSE /\ stderr' = PrintErr("Unsupported platform: ", system)
            /\ Exit(1)
            /\ path' = path
    /\ UNCHANGED <<inputs, project, editor, result, child, cmd, runs, prev>>

\* lines 30-35
LocateBinaryNoExit ==
    /\ pc = "L30"
    /\ calls' = Append(calls, "os.path.exists")
    /\ stderr' = IF Exists(path) THEN stderr
                 ELSE Append(PrintErr("Editor binary not found: ", path),
                             <<"Build the editor first: uv run poe build-godot", "">>)
    /\ editor' = path
    /\ pc' = "L42"
    /\ UNCHANGED <<inputs, project, path, result, child, cmd, exitcode, runs, prev>>
LocateBinaryNoCheck ==
    /\ pc = "L30"
    /\ calls' = Append(calls, "os.path.exists")
    /\ editor' = path
    /\ pc' = "L42"
    /\ UNCHANGED <<inputs, project, path, result, child, cmd, exitcode, stderr, runs, prev>>
LocateBinary ==
    /\ pc = "L30"
    /\ calls' = Append(calls, "os.path.exists")
    /\ IF Exists(path)
       THEN /\ editor' = path
            /\ pc' = "L42"
            /\ UNCHANGED <<exitcode, stderr>>
       ELSE /\ stderr' = Append(PrintErr("Editor binary not found: ", path),
                                <<"Build the editor first: uv run poe build-godot", "">>)
            /\ Exit(1)
            /\ editor' = editor
    /\ UNCHANGED <<inputs, project, path, result, child, cmd, runs, prev>>

\* lines 42-45
ValidateProjectNoExit ==
    /\ pc = "L42"
    /\ project' = AbsPath(project)
    /\ calls' = Append(calls, "os.path.isfile")
    /\ stderr' = IF IsFile(Join(project', Marker)) THEN stderr
                 ELSE PrintErr("No project.godot found in: ", project')
    /\ pc' = "L47"
    /\ UNCHANGED <<inputs, editor, path, result, child, cmd, exitcode, runs, prev>>
ValidateProjectCreatesMarker ==
    /\ pc = "L42"
    /\ project' = AbsPath(project)
    /\ calls' = Append(calls, "os.path.isfile")
    /\ IF IsFile(Join(project', Marker))
       THEN /\ pc' = "L47"
            /\ UNCHANGED <<exitcode, stderr, files>>
       ELSE /\ stderr' = PrintErr("No project.godot found in: ", project')
            /\ Exit(1)
            /\ files' = (files \cup {Join(project', Marker).parts}) \ dirs
    /\ UNCHANGED <<argv, environ, system, machine, cwd, dirs, editor, path, result,
                   child, cmd, runs, prev>>
ValidateProject ==
    /\ pc = "L42"
    /\ project' = AbsPath(project)
    /\ calls' = Append(calls, "os.path.isfile")
    /\ IF IsFile(Join(project', Marker))
       THEN /\ pc' = "L47"
            /\ UNCHANGED <<exitcode, stderr>>
       ELSE /\ stderr' = PrintErr("No project.godot found in: ", project')
            /\ Exit(1)
    /\ UNCHANGED <<inputs, editor, path, result, child, cmd, runs, prev>>

\* line 47, the spawn: the platform starts the child, or raises (the file is
\* missing, is a directory, or cannot be executed) and the interpreter ends
\* the process with a traceback and status 1
SpawnEditor ==
    /\ pc = "L47"
    /\ calls' = Append(calls, "subprocess.run")
    /\ cmd' = <<editor, "--headless", "--import", "--path", project>>
    /\ \/ /\ IsFile(editor)
          /\ child' = "running"
          /\ pc' = "L47wait"
          /\ UNCHANGED <<exitcode, stderr>>
       \/ /\ stderr' = PrintErr("Traceback (most recent call last): ", editor)
          /\ Exit(1)
          /\ child' = child
    /\ UNCHANGED <<inputs, project, editor, path, result, runs, prev>>

\* line 47, the wait: the child ends and subprocess.run returns
ChildExit ==
    /\ pc = "L47wait"
    /\ \E rc \in ReturnCodes : result' = rc
    /\ child' = "exited"
    /\ pc' = "L48"
    /\ UNCHANGED <<inputs, project, editor, path, cmd, exitcode, stderr, calls, runs, prev>>

\* line 48
PropagateExit ==
    /\ pc = "L48"
    /\ Exit(result)
    /\ UNCHANGED <<inputs, project, editor, path, result, child, cmd, stderr, calls,
                   runs, prev>>

\* what an invocation did before any spawn
PreSpawnOutcome ==
    IF stderr # << >> /\ cmd = << >> THEN stderr[1][1] ELSE "spawn"

\* lines 51-52: the script is invoked again, as a new process, on the same inputs
Restart ==
    /\ pc = "done"
    /\ runs < MaxRuns
    /\ runs' = runs + 1
    /\ prev' = [run |-> runs, editor |-> editor, project |-> project,
                outcome |-> PreSpawnOutcome]
    /\ pc' = "L39"
    /\ project' = None
    /\ editor' = None
    /\ path' = None
    /\ result' = None
    /\ child' = "none"
    /\ cmd' = << >>
    /\ exitcode' = None
    /\ stderr' = << >>
    /\ calls' = << >>
    /\ UNCHANGED inputs

Step ==
    \/ ReadArgs
    \/ ReadOverride
    \/ DetectName
    \/ LocateBinary
    \/ ValidateProject
    \/ SpawnEditor
    \/ ChildExit
    \/ PropagateExit

Next == Step \/ Restart

Spec == Init /\ [][Next]_vars

\* a started process runs on, and the child is taken to end
FairSpec == Spec /\ WF_vars(Step)

-----------------------------------------------------------------------------
(* Vocabulary of the properties *)

Called(c) == \E i \in DOMAIN calls : calls[i] = c

OverrideSet == "GODOT_EDITOR" \in DOMAIN environ
OverrideNonEmpty == OverrideSet /\ environ["GODOT_EDITOR"] # EmptyStr

\* the error taxonomy, read off the first line written to the error stream
ErrorState ==
    IF stderr = << >> THEN "None"
    ELSE CASE stderr[1][1] = "Unsupported platform: " -> "UnsupportedPlatform"
           [] stderr[1][1] = "Editor binary not found: " -> "BinaryNotFound"
           [] stderr[1][1] = "No project.godot found in: " -> "ProjectNotFound"
           [] OTHER -> "SpawnError"

SpawnAttempted == Called("subprocess.run")

KnownOs == system \in {"Windows", "Linux", "Darwin"}

\* the absolute project directory of each command line, written out by hand
ExpectedProjectDir ==
    CASE argv = <<Prog>> -> <<"w", "game">>
      [] argv = <<Prog, Str(<<"..", "srv", "proj">>)>> -> <<"srv", "proj">>
      [] argv = <<Prog, AbsStr(<<"w", "game">>)>> -> <<"w", "game">>

MarkerPresent == Append(ExpectedProjectDir, Marker) \in files

\* the file name the naming convention gives each host, written out by hand
ArmSpellings == {<<"a", "r", "m", "6", "4">>, <<"A", "R", "M", "6", "4">>,
                 <<"a", "a", "r", "c", "h", "6", "4">>,
                 <<"A", "a", "r", "c", "h", "6", "4">>, <<"A", "A", "R", "C", "H", "6", "4">>}
ExpectedArchToken == IF machine \in ArmSpellings THEN "arm64" ELSE "x86_64"
ExpectedOsToken ==
    CASE system = "Windows" -> "windows"
      [] system = "Linux" -> "linuxbsd"
      [] system = "Darwin" -> "macos"
ExpectedName ==
    "godot." \o ExpectedOsToken \o ".editor." \o ExpectedArchToken
             \o ".executable.mono" \o (IF system = "Windows" THEN ".exe" ELSE "")

BinaryOnDisk ==
    KnownOs /\ (<<"w", "godot", "bin", ExpectedName>> \in files \cup dirs)

AfterDetect == pc \notin {"L39", "L40", "L12"}

-----------------------------------------------------------------------------
\* C1: the editor is spawned only if a regular file project.godot lies directly
\* in the absolute project directory; when it does not, the run ends with exit
\* code 1 and never spawns, with or without GODOT_EDITOR.
C1_SpawnOnlyWithMarker ==
    /\ SpawnAttempted => MarkerPresent
    /\ (pc = "done" /\ ~MarkerPresent) =>
          /\ exitcode = 1
          /\ ~SpawnAttempted
          /\ cmd = << >>
          /\ child = "none"

C1_Witness ==
    /\ pc = "done"
    /\ ~MarkerPresent
    /\ OverrideNonEmpty
    /\ ErrorState = "ProjectNotFound"
    /\ exitcode = 1

\* C2 as stated: whenever a spawn is attempted, the editor path invoked exists
\* on disk, whether it was detected or taken from GODOT_EDITOR.
C2_SpawnedBinaryExists ==
    SpawnAttempted => AbsPath(cmd[1]).parts \in files \cup dirs

\* C2, amended: with no non-empty GODOT_EDITOR, a spawn is attempted only with
\* the detected path and only if that path exists on disk; when it does not
\* exist the run ends with exit code 1 and never spawns.
C2_DetectedBinaryExists ==
    ~OverrideNonEmpty =>
        /\ SpawnAttempted =>
              /\ BinaryOnDisk
              /\ cmd[1] = Str(<<"godot", "bin", ExpectedName>>)
        /\ (pc = "done" /\ ~BinaryOnDisk) =>
              /\ exitcode = 1
              /\ ~SpawnAttempted
              /\ child = "none"

C2_Witness ==
    /\ pc = "done"
    /\ ~OverrideNonEmpty
    /\ KnownOs
    /\ ~BinaryOnDisk
    /\ MarkerPresent
    /\ ErrorState = "BinaryNotFound"
    /\ exitcode = 1

\* C3 as stated: a run with GODOT_EDITOR set never detects the platform and
\* never ends in UnsupportedPlatform or BinaryNotFound.
C3_SetOverrideSkipsDetection ==
    OverrideSet =>
        /\ ~Called("platform.system")
        /\ ErrorState \notin {"UnsupportedPlatform", "BinaryNotFound"}

\* C3, amended: a run with GODOT_EDITOR set to a non-empty value never detects
\* the platform and never checks the binary on disk, uses the value as it is
\* as the spawned executable, and can fail before the spawn only on the
\* missing project.godot marker.
C3_NonEmptyOverrideSkipsDetection ==
    OverrideNonEmpty =>
        /\ ~Called("platform.system")
        /\ ~Called("platform.machine")
        /\ ~Called("os.path.exists")
        /\ ErrorState \notin {"UnsupportedPlatform", "BinaryNotFound"}
        /\ SpawnAttempted => cmd[1] = environ["GODOT_EDITOR"]
        /\ (pc = "done" /\ ~SpawnAttempted) => ErrorState = "ProjectNotFound"
        /\ (pc = "done" /\ MarkerPresent) => SpawnAttempted

C3_Witness ==
    /\ OverrideNonEmpty
    /\ ~KnownOs
    /\ environ["GODOT_EDITOR"].parts \notin files \cup dirs
    /\ pc = "done"
    /\ cmd # << >>
    /\ cmd[1] = environ["GODOT_EDITOR"]

\* C4: when the child was spawned and has exited, the launcher's exit code is
\* the child's return code, whatever that code is.
C4_ExitCodeIsChildCode ==
    (pc = "done" /\ child = "exited") => exitcode = result

\* C5: for Windows, Linux and Darwin and every architecture string the
\* resolver yields godot/bin/godot.<os>.editor.<arch>.executable.mono[.exe],
\* arm64 exactly for the spellings of arm64 and aarch64, x86_64 otherwise,
\* and no architecture makes it fail.
C5_ResolvedName ==
    (~OverrideNonEmpty /\ KnownOs /\ AfterDetect) =>
        /\ path = Str(<<"godot", "bin", ExpectedName>>)
        /\ ErrorState # "UnsupportedPlatform"

C5_Witness ==
    /\ system = "Windows"
    /\ machine = <<"A", "a", "r", "c", "h", "6", "4">>
    /\ path = Str(<<"godot", "bin", "godot.windows.editor.arm64.executable.mono.exe">>)

\* C6: with no override in effect and a host OS other than Windows, Linux or
\* Darwin, the run ends with exit code 1 in UnsupportedPlatform, before any
\* existence check on a binary or a marker and without a child.
C6_UnsupportedPlatform ==
    (~OverrideNonEmpty /\ ~KnownOs /\ AfterDetect) =>
        /\ pc = "done"
        /\ exitcode = 1
        /\ stderr = << <<"Unsupported platform: ", system>> >>
        /\ ~Called("os.path.exists")
        /\ ~Called("os.path.isfile")
        /\ ~SpawnAttempted
        /\ child = "none"

C6_Witness ==
    /\ system = "Plan9"
    /\ environ = << >>
    /\ pc = "done"
    /\ ErrorState = "UnsupportedPlatform"

\* C7: the steps run in a fixed order, so the first failing check decides:
\* without an override an unsupported platform wins over a missing binary and
\* a missing binary wins over a missing marker.
StepOrder ==
    IF OverrideNonEmpty
    THEN <<"environ.get", "os.path.isfile", "subprocess.run">>
    ELSE <<"environ.get", "platform.system", "platform.machine", "os.path.exists",
           "os.path.isfile", "subprocess.run">>

C7_FirstFailureWins ==
    /\ Len(calls) <= Len(StepOrder)
    /\ calls = SubSeq(StepOrder, 1, Len(calls))
    /\ (pc = "done" /\ ~OverrideNonEmpty /\ ~KnownOs) =>
          ErrorState = "UnsupportedPlatform"
    /\ (pc = "done" /\ ~OverrideNonEmpty /\ KnownOs /\ ~BinaryOnDisk) =>
          /\ ErrorState = "BinaryNotFound"
          /\ ~Called("os.path.isfile")
          /\ \A i \in DOMAIN stderr : stderr[i][1] # "No project.godot found in: "

C7_Witness ==
    /\ pc = "done"
    /\ ~OverrideNonEmpty
    /\ KnownOs
    /\ ~BinaryOnDisk
    /\ ~MarkerPresent
    /\ ErrorState = "BinaryNotFound"

\* C8: the terminal states
SuccessWithChildExitCode ==
    /\ pc = "done"
    /\ child = "exited"
    /\ SpawnAttempted
    /\ stderr = << >>
    /\ exitcode = ExitStatus(result)

FatalPreSpawnError ==
    /\ pc = "done"
    /\ child = "none"
    /\ ~SpawnAttempted
    /\ Len(stderr) >= 1
    /\ ErrorState \in {"UnsupportedPlatform", "BinaryNotFound", "ProjectNotFound"}
    /\ \A i \in DOMAIN stderr : i > 1 => stderr[i][1] = "Build the editor first: uv run poe build-godot"
    /\ exitcode = 1

UnhandledSpawnError ==
    /\ pc = "done"
    /\ child = "none"
    /\ SpawnAttempted
    /\ Len(stderr) = 1
    /\ ErrorState = "SpawnError"
    /\ exitcode = 1

\* C8 as stated: the only terminal states are success with the child's exit
\* code and the fatal error before the spawn.
C8_TwoTerminalStates ==
    pc = "done" => (SuccessWithChildExitCode \/ FatalPreSpawnError)

\* C8, amended: every invocation, provided the spawned child terminates, ends
\* in exactly one of three terminal states: success with the child's exit
\* code, the fatal error before the spawn (exit code 1), or the spawn itself
\* failing with the platform's unhandled error; there is no other.
C8_ThreeTerminalStates ==
    /\ [](pc = "done" =>
            \/ SuccessWithChildExitCode /\ ~FatalPreSpawnError /\ ~UnhandledSpawnError
            \/ ~SuccessWithChildExitCode /\ FatalPreSpawnError /\ ~UnhandledSpawnError
            \/ ~SuccessWithChildExitCode /\ ~FatalPreSpawnError /\ UnhandledSpawnError)
    /\ (pc = "L39") ~> (pc = "done")

C8_Witness ==
    /\ UnhandledSpawnError
    /\ OverrideNonEmpty
    /\ environ["GODOT_EDITOR"].parts \notin files \cup dirs

\* C9: an invocation repeated on the same inputs resolves the same editor
\* path and the same absolute project path and has the same outcome before
\* the spawn as the invocation before it.
C9_SameInputsSameResolution ==
    (prev # NoPrev /\ pc = "done") =>
        /\ editor = prev.editor
        /\ project = prev.project
        /\ PreSpawnOutcome = prev.outcome

C9_Witness ==
    /\ runs = 2
    /\ pc = "done"
    /\ prev.outcome = "spawn"
    /\ editor = Str(<<"godot", "bin", "godot.linuxbsd.editor.x86_64.executable.mono">>)
    /\ project = AbsStr(<<"srv", "proj">>)

\* C10: GODOT_EDITOR set to the empty string is treated as unset: the run
\* detects the platform and checks the binary on disk, so it can end in
\* UnsupportedPlatform or BinaryNotFound, and the empty string is never the
\* spawned executable.
C10_EmptyOverrideIsUnset ==
    (OverrideSet /\ environ["GODOT_EDITOR"] = EmptyStr) =>
        /\ AfterDetect => Called("platform.system")
        /\ (AfterDetect /\ pc # "done") =>
              path = Str(<<"godot", "bin", ExpectedName>>)
        /\ pc \in {"L42", "L47", "L47wait", "L48"} =>
              Called("os.path.exists") /\ editor = path /\ BinaryOnDisk
        /\ (pc = "done" /\ ~KnownOs) => ErrorState = "UnsupportedPlatform"
        /\ (pc = "done" /\ KnownOs /\ ~BinaryOnDisk) =>
              ErrorState = "BinaryNotFound"
        /\ SpawnAttempted => cmd[1] # EmptyStr /\ cmd[1] = path

C10_Witness ==
    /\ OverrideSet
    /\ environ["GODOT_EDITOR"] = EmptyStr
    /\ pc = "done"
    /\ ErrorState = "UnsupportedPlatform"
    /\ exitcode = 1

====
